---- MODULE Spec2Model ----
(***************************************************************************)
(* Model of the client animation engine (src/client-animations.ts) and of  *)
(* the server tick loop (src/server-game.ts).                              *)
(*                                                                         *)
(* JavaScript numbers are modelled as exact rationals n/d (d > 0) extended *)
(* with the three IEEE specials, encoded with d = 0:                       *)
(*    n = 0 : NaN      n = 1 : +Infinity      n = -1 : -Infinity           *)
(* Rounding and the sign of zero are not modelled; every keyframe value of *)
(* the model is an integer, so the arithmetic the code performs is exact.  *)
(***************************************************************************)
EXTENDS Integers, Sequences, FiniteSets, TLC

VARIABLES
    animation,      \* client: the "current" descriptor handed to the engine
    oldAnimation,   \* client: the "previous" (superseded) descriptor
    returnKeys,     \* client: the parts requested by the caller
    now,            \* client: Date.now()
    out,            \* client: record of the last getAnimationValues call
    clock,          \* server: Date.now() / new Date().getTime()
    start,          \* server: Game.start
    time,           \* server: Game.time
    lastUpdateTime, \* server: Game.lastUpdateTime
    timers,         \* server: due times of the pending setTimeout callbacks
    pc,             \* server: position inside Game.update
    ticks,          \* server: number of update() runs started
    log             \* server: the steps performed by the running update()

clientVars == <<animation, oldAnimation, returnKeys, now, out>>
serverVars == <<clock, start, time, lastUpdateTime, timers, pc, ticks, log>>
vars == <<clientVars, serverVars>>

(***************************************************************************)
(* JavaScript number arithmetic                                            *)
(***************************************************************************)
Abs(i) == IF i < 0 THEN -i ELSE i

Sgn(i) == IF i < 0 THEN -1 ELSE IF i > 0 THEN 1 ELSE 0

RECURSIVE GCD(_, _)
GCD(a, b) == IF b = 0 THEN a ELSE GCD(b, a % b)

\* the rational n/d in lowest terms with a positive denominator (d # 0)
Rat(n, d) ==
    LET g == GCD(Abs(n), Abs(d))
    IN  [n |-> (Sgn(d) * n) \div g, d |-> Abs(d) \div g]

Num(i) == [n |-> i, d |-> 1]

NaN == [n |-> 0, d |-> 0]

Infinity(s) == [n |-> s, d |-> 0]

IsNaN(a) == a.d = 0 /\ a.n = 0

IsFinite(a) == a.d > 0

NumNeg(a) == [n |-> -a.n, d |-> a.d]

NumAdd(a, b) ==
    IF IsNaN(a) \/ IsNaN(b) THEN NaN
    ELSE IF a.d = 0 /\ b.d = 0 THEN (IF a.n = b.n THEN a ELSE NaN)
    ELSE IF a.d = 0 THEN a
    ELSE IF b.d = 0 THEN b
    ELSE Rat(a.n * b.d + b.n * a.d, a.d * b.d)

NumSub(a, b) == NumAdd(a, NumNeg(b))

NumMul(a, b) ==
    IF IsNaN(a) \/ IsNaN(b) THEN NaN
    ELSE IF a.d = 0 \/ b.d = 0
         THEN (IF a.n = 0 \/ b.n = 0 THEN NaN ELSE Infinity(Sgn(a.n) * Sgn(b.n)))
    ELSE Rat(a.n * b.n, a.d * b.d)

NumDiv(a, b) ==
    IF IsNaN(a) \/ IsNaN(b) THEN NaN
    ELSE IF b.d = 0 THEN (IF a.d = 0 THEN NaN ELSE Num(0))
    ELSE IF b.n = 0
         THEN (IF a.n = 0 THEN NaN ELSE Infinity(Sgn(a.n)))
    ELSE IF a.d = 0 THEN Infinity(Sgn(a.n) * Sgn(b.n))
    ELSE Rat(a.n * b.d, a.d * b.n)

NumGt(a, b) ==
    IF IsNaN(a) \/ IsNaN(b) THEN FALSE
    ELSE IF a.d = 0 /\ b.d = 0 THEN a.n > b.n
    ELSE a.n * b.d > b.n * a.d

NumGe(a, b) ==
    IF IsNaN(a) \/ IsNaN(b) THEN FALSE
    ELSE IF a.d = 0 /\ b.d = 0 THEN a.n >= b.n
    ELSE a.n * b.d >= b.n * a.d

(***************************************************************************)
(* Client: static data (the keyframe tables of ./animations) and the       *)
(* descriptors handed to the engine                                        *)
(***************************************************************************)
MaxNow == 9

Parts == {"head", "armLeft", "tail"}

\* AnimationDataPart
V(x, y, r) == [x |-> Num(x), y |-> Num(y), rotation |-> Num(r)]

emptyValues == V(0, 0, 0)

Fields == {"x", "y", "rotation"}

\* A keyframe table is the sequence of its (key, parts) pairs in the order
\* Object.keys enumerates them: integer-like keys in ascending order.
animations ==
    [ swing  |-> << [key |-> 0,   parts |-> [head |-> V(0, 0, 0)]],
                    [key |-> 40,  parts |-> [head |-> V(10, 0, 0)]],
                    [key |-> 60,  parts |-> [head |-> V(10, 5, 0)]] >>,
      attack |-> << [key |-> 0,   parts |-> [head |-> V(0, 0, 0), armLeft |-> V(4, 2, 10)]],
                    [key |-> 50,  parts |-> [head |-> V(10, 0, 0), armLeft |-> V(8, 0, 20)]],
                    [key |-> 100, parts |-> [head |-> V(10, 6, 0)]] >>,
      walk   |-> << [key |-> 40,  parts |-> [head |-> V(6, 0, 0), armLeft |-> V(2, 2, 0)]],
                    [key |-> 60,  parts |-> [head |-> V(0, 4, 0)]] >> ]

AnimationNames == {"swing", "attack", "walk", "ghost"}

Durations == {-4, 0, 4, 5}

OldDurations == {0, 4, 8}

CreatedAts == {2}

OldCreatedAts == {0}

CanceledAts == {2, 3}

ReturnKeyLists == {<<>>, <<"head">>, <<"head", "armLeft", "tail">>}

\* the JavaScript value undefined, for a descriptor and for a keyframe table
undefined == [name |-> "undefined", createdAt |-> 0, duration |-> 0, canceledAt |-> 0]

noData == [defined |-> FALSE, frames |-> <<>>]

\* animations[animation?.name]
Lookup(a) ==
    IF a # undefined /\ a.name \in DOMAIN animations
    THEN [defined |-> TRUE, frames |-> animations[a.name]]
    ELSE noData

Animations ==
    {undefined} \cup
    [name : AnimationNames, createdAt : CreatedAts, duration : Durations, canceledAt : {0}]

OldAnimations ==
    {undefined} \cup
    [name : AnimationNames, createdAt : OldCreatedAts, duration : OldDurations,
     canceledAt : CanceledAts]

\* animationData[k]: the parts of keyframe k, the empty record when there is none
Frame(animationData, k) ==
    LET f == animationData.frames
        hit == {i \in 1..Len(f) : IsFinite(k) /\ k = Num(f[i].key)}
    IN  IF hit = {} THEN [p \in {} |-> emptyValues] ELSE f[CHOOSE i \in hit : TRUE].parts

(***************************************************************************)
(* Client: the engine                                                      *)
(***************************************************************************)
\* faulty variant: the comparison made at the cancellation instant
isOldAnimationCanceled_atCancel(oldAnim, dateNow) ==
    IF oldAnim = undefined
    THEN FALSE
    ELSE oldAnim.canceledAt - oldAnim.createdAt - oldAnim.duration < 0

\* faulty variant: the comparison reversed
isOldAnimationCanceled_reversed(oldAnim, dateNow) ==
    IF oldAnim = undefined
    THEN FALSE
    ELSE dateNow - oldAnim.createdAt - oldAnim.duration > 0

isOldAnimationCanceled(oldAnim, dateNow) ==
    IF oldAnim = undefined
    THEN FALSE
    ELSE dateNow - oldAnim.createdAt - oldAnim.duration < 0

calculateProgressBetweenKeys(from, to, progress) ==
    LET diff == NumSub(to, from)
        progressBetween == NumDiv(NumSub(progress, from), diff)
    IN  IF NumGt(progressBetween, Num(1)) THEN Num(1) ELSE progressBetween

\* faulty variant: the superseded animation keeps running on the wall clock
timeElapsed_live(anim, type, dateNow) == dateNow - anim.createdAt

timeElapsed(anim, type, dateNow) ==
    IF type = "old"
    THEN anim.canceledAt - anim.createdAt
    ELSE dateNow - anim.createdAt

\* let progress = (timeElapsed / animation.duration) * 100; if (progress > 100) progress = 100
Progress(anim, type, dateNow) ==
    LET p == NumMul(NumDiv(Num(timeElapsed(anim, type, dateNow)), Num(anim.duration)),
                    Num(100))
    IN  IF NumGt(p, Num(100)) THEN Num(100) ELSE p

\* the keys.forEach loop, from index i on
RECURSIVE KeysLoop(_, _, _, _)
KeysLoop(keys, i, progress, acc) ==
    IF i > Len(keys) THEN acc
    ELSE IF NumGe(progress, Num(keys[i]))
         THEN KeysLoop(keys, i + 1, progress,
                       [from |-> Num(keys[i]),
                        to   |-> IF i + 1 <= Len(keys) THEN Num(keys[i + 1]) ELSE Num(100)])
         ELSE KeysLoop(keys, i + 1, progress, acc)

getAnimationKeys(anim, animationData, type, dateNow) ==
    IF anim = undefined \/ ~animationData.defined
    THEN [from |-> Num(0), to |-> Num(0), progress |-> Num(0)]
    ELSE LET progress == Progress(anim, type, dateNow)
             keys == [i \in 1..Len(animationData.frames) |-> animationData.frames[i].key]
             \* Number(keys[0]) of an empty table is Number(undefined) = NaN
             init == [from |-> Num(0), to |-> IF Len(keys) > 0 THEN Num(keys[1]) ELSE NaN]
             ft == KeysLoop(keys, 1, progress, init)
         IN  [from |-> ft.from, to |-> ft.to, progress |-> progress]

\* lines 176-184: the "from" side of one part's blend
FromValues(from, animationData, returnKey, oldAnimationValues) ==
    IF returnKey \in DOMAIN oldAnimationValues
    THEN oldAnimationValues[returnKey]
    ELSE IF returnKey \in DOMAIN Frame(animationData, from)
         THEN Frame(animationData, from)[returnKey]
         ELSE emptyValues

\* lines 186-189: the "to" side of one part's blend
ToValues(to, animationData, returnKey) ==
    IF returnKey \in DOMAIN Frame(animationData, to)
    THEN Frame(animationData, to)[returnKey]
    ELSE emptyValues

\* lines 193-197
Blend(fromValues, toValues, progressBetween) ==
    [key \in Fields |->
        NumAdd(fromValues[key],
               NumMul(NumSub(toValues[key], fromValues[key]), progressBetween))]

Range(s) == {s[i] : i \in 1..Len(s)}

noValues == [p \in {} |-> emptyValues]

\* The old pass is skipped unless the new animation is at its beginning and the
\* old one was canceled before it finished.
SkipOld(type, baseFrom, anim, dateNow) ==
    type = "old" /\ ~(baseFrom = Num(0) /\ isOldAnimationCanceled(anim, dateNow))

\* Indexing an undefined table (animationData[from], animationData[to]) raises a
\* TypeError in the first iteration of returnKeys.forEach.
Throws(animationData, keyList) == ~animationData.defined /\ Len(keyList) > 0

calculateAnimatedValues(from, to, progress, anim, animationData, keyList, type, baseFrom, oldAnimationValues, dateNow) ==
    IF SkipOld(type, baseFrom, anim, dateNow)
    THEN [threw |-> FALSE, values |-> noValues]
    ELSE IF Throws(animationData, keyList)
    THEN [threw |-> TRUE, values |-> noValues]
    ELSE LET progressBetween == calculateProgressBetweenKeys(from, to, progress)
         IN  [threw  |-> FALSE,
              values |-> [returnKey \in Range(keyList) |->
                            Blend(FromValues(from, animationData, returnKey, oldAnimationValues),
                                  ToValues(to, animationData, returnKey),
                                  progressBetween)]]

\* getAnimationValues, with everything the call computed on the way
getAnimationValues(anim, oldAnim, keyList, dateNow) ==
    IF Len(keyList) = 0 \/ anim = undefined
    THEN [called |-> TRUE, at |-> dateNow, entered |-> FALSE, threw |-> FALSE,
          new |-> getAnimationKeys(undefined, noData, "new", dateNow),
          old |-> getAnimationKeys(undefined, noData, "old", dateNow),
          blended |-> FALSE, oldAnimationValues |-> noValues,
          fromValues |-> noValues, factors |-> <<>>, result |-> noValues]
    ELSE LET animationData == Lookup(anim)
             oldAnimationData == Lookup(oldAnim)
             new == getAnimationKeys(anim, animationData, "new", dateNow)
             old == getAnimationKeys(oldAnim, oldAnimationData, "old", dateNow)
             oldPass == calculateAnimatedValues(old.from, old.to, old.progress, oldAnim,
                            oldAnimationData, keyList, "old", new.from, noValues, dateNow)
             blended == ~SkipOld("old", new.from, oldAnim, dateNow)
             newPass == calculateAnimatedValues(new.from, new.to, new.progress, anim,
                            animationData, keyList, "new", NaN, oldPass.values, dateNow)
             done == ~oldPass.threw /\ ~newPass.threw
         IN  [called |-> TRUE, at |-> dateNow, entered |-> TRUE,
              threw |-> ~done,
              new |-> new, old |-> old,
              blended |-> blended,
              oldAnimationValues |-> oldPass.values,
              fromValues |-> IF done
                             THEN [p \in Range(keyList) |->
                                     FromValues(new.from, animationData, p, oldPass.values)]
                             ELSE noValues,
              \* the blend factors computed, old pass first
              factors |-> (IF blended /\ ~oldPass.threw
                           THEN <<calculateProgressBetweenKeys(old.from, old.to, old.progress)>>
                           ELSE <<>>)
                          \o (IF done
                              THEN <<calculateProgressBetweenKeys(new.from, new.to, new.progress)>>
                              ELSE <<>>),
              result |-> IF done THEN newPass.values ELSE noValues]

notCalled ==
    [called |-> FALSE, at |-> 0, entered |-> FALSE, threw |-> FALSE,
     new |-> getAnimationKeys(undefined, noData, "new", 0),
     old |-> getAnimationKeys(undefined, noData, "old", 0),
     blended |-> FALSE, oldAnimationValues |-> noValues,
     fromValues |-> noValues, factors |-> <<>>, result |-> noValues]

(***************************************************************************)
(* Client: one engine call per rendered frame, at the wall-clock instant   *)
(* now; the descriptors and the requested parts are the call's inputs.     *)
(***************************************************************************)
\* the wall clock advances between frames
Tick ==
    /\ now < MaxNow
    /\ now' = now + 1
    /\ UNCHANGED <<animation, oldAnimation, returnKeys, out, serverVars>>

\* getAnimationValues(animation, oldAnimation, returnKeys) at Date.now() = now
Render ==
    /\ out' = getAnimationValues(animation, oldAnimation, returnKeys, now)
    /\ UNCHANGED <<animation, oldAnimation, returnKeys, now, serverVars>>

(***************************************************************************)
(* Server: Game.constructor and Game.update.  The clock counts thirds of a *)
(* millisecond, the unit in which loopTimeout = 1000 / 60 is an integer.   *)
(***************************************************************************)
MaxClock == 160

tickRate == 60

loopTimeout == 3000 \div tickRate

ClockSteps == {1, 25, 60}

\* setTimeout(cb, delay) armed at instant t: the callback is due delay later;
\* a negative delay is taken as no delay.  A due callback runs when the event
\* loop gets to it, at the due instant or later.
setTimeout(t, delay) == t + (IF delay < 0 THEN 0 ELSE delay)

\* faulty variant: the overrun measured before this.time is advanced
NextDelay_stale(t, startedAt, accumulated) ==
    LET diff == t - startedAt - accumulated
    IN  loopTimeout - diff

\* lines 66-68: this.time += loopTimeout; diff = now - start - time; the next delay
NextDelay(t, startedAt, accumulated) ==
    LET diff == t - startedAt - (accumulated + loopTimeout)
    IN  loopTimeout - diff

UpdateSteps == <<"movePlayers", "handlePlayerAttacks", "sendUpdateToPlayers">>

\* time passes, inside update() as well as between ticks
Elapse ==
    \E d \in ClockSteps :
        /\ clock + d <= MaxClock
        /\ clock' = clock + d
        /\ UNCHANGED <<start, time, lastUpdateTime, timers, pc, ticks, log, clientVars>>

\* a due timer runs update(): line 54
Fire ==
    /\ pc = "idle"
    /\ \E i \in 1..Len(timers) :
        /\ timers[i].due <= clock
        /\ timers' = [j \in 1..(Len(timers) - 1) |-> IF j < i THEN timers[j] ELSE timers[j + 1]]
    /\ lastUpdateTime' = clock
    /\ ticks' = ticks + 1
    /\ log' = <<>>
    /\ pc' = "movePlayers"
    /\ UNCHANGED <<clock, start, time, clientVars>>

\* line 57
MovePlayers ==
    /\ pc = "movePlayers"
    /\ log' = Append(log, "movePlayers")
    /\ pc' = "handlePlayerAttacks"
    /\ UNCHANGED <<clock, start, time, lastUpdateTime, timers, ticks, clientVars>>

\* line 60
HandlePlayerAttacks ==
    /\ pc = "handlePlayerAttacks"
    /\ log' = Append(log, "handlePlayerAttacks")
    /\ pc' = "sendUpdateToPlayers"
    /\ UNCHANGED <<clock, start, time, lastUpdateTime, timers, ticks, clientVars>>

\* line 63
SendUpdateToPlayers ==
    /\ pc = "sendUpdateToPlayers"
    /\ log' = Append(log, "sendUpdateToPlayers")
    /\ pc' = "rearm"
    /\ UNCHANGED <<clock, start, time, lastUpdateTime, timers, ticks, clientVars>>

\* lines 66-68
Rearm ==
    /\ pc = "rearm"
    /\ time' = time + loopTimeout
    /\ timers' = Append(timers, [armedAt |-> clock,
                                 delay   |-> NextDelay(clock, start, time),
                                 due     |-> setTimeout(clock, NextDelay(clock, start, time))])
    /\ pc' = "idle"
    /\ UNCHANGED <<clock, start, lastUpdateTime, ticks, log, clientVars>>

(***************************************************************************)
(* Specifications                                                          *)
(***************************************************************************)
ClientIdle ==
    /\ animation = undefined
    /\ oldAnimation = undefined
    /\ returnKeys = <<>>
    /\ now = 0
    /\ out = notCalled

ServerIdle ==
    /\ clock = 0
    /\ start = 0
    /\ time = 0
    /\ lastUpdateTime = 0
    /\ timers = <<>>
    /\ pc = "idle"
    /\ ticks = 0
    /\ log = <<>>

\* the engine's inputs, before the first frame
Init ==
    /\ animation \in Animations
    /\ oldAnimation \in OldAnimations
    /\ returnKeys \in ReturnKeyLists
    /\ now = 0
    /\ out = notCalled
    /\ ServerIdle

Next == Tick \/ Render

Spec == Init /\ [][Next]_vars

\* the state Game.constructor leaves: lines 42-49
InitServer ==
    /\ clock \in {0, 7}
    /\ start = clock
    /\ lastUpdateTime = clock
    /\ time = 0
    /\ timers = <<[armedAt |-> clock, delay |-> loopTimeout,
                   due |-> setTimeout(clock, loopTimeout)]>>
    /\ pc = "idle"
    /\ ticks = 0
    /\ log = <<>>
    /\ ClientIdle

NextServer ==
    \/ Elapse
    \/ Fire
    \/ MovePlayers
    \/ HandlePlayerAttacks
    \/ SendUpdateToPlayers
    \/ Rearm

SpecServer == InitServer /\ [][NextServer]_vars

(***************************************************************************)
(* Properties of the engine.  The helpers restate the design in terms of   *)
(* the keyframe tables alone, without the engine's own operators.          *)
(***************************************************************************)
Max(S) == CHOOSE x \in S : \A y \in S : y <= x

Min(S) == CHOOSE x \in S : \A y \in S : x <= y

HasTable(a) == a # undefined /\ a.name \in DOMAIN animations

KeysOf(name) == {animations[name][i].key : i \in 1..Len(animations[name])}

\* the entry of part p in keyframe k of the table, the neutral Transform if none
Entry(name, k, p) ==
    LET f == animations[name]
        hit == {i \in 1..Len(f) : f[i].key = k /\ p \in DOMAIN f[i].parts}
    IN  IF hit = {} THEN V(0, 0, 0) ELSE f[CHOOSE i \in hit : TRUE].parts[p]

\* clamp(100 * elapsed / duration, 0, 100), for duration # 0
Clamped(elapsed, duration) ==
    LET raw == Rat(100 * elapsed, duration)
    IN  IF raw.n < 0 THEN Num(0)
        ELSE IF raw.n > 100 * raw.d THEN Num(100)
        ELSE raw

\* the greatest key <= progress (0 if none), and the key after it (100 if none)
Brackets(name, r) ==
    LET le   == {k \in KeysOf(name) : NumGe(r.progress, Num(k))}
        from == IF le = {} THEN 0 ELSE Max(le)
        gt   == {k \in KeysOf(name) : k > from}
        to   == IF gt = {} THEN 100 ELSE Min(gt)
    IN  r.from = Num(from) /\ r.to = Num(to)

Requested == Range(returnKeys)

\* keyframe k of the table has an entry for part p
HasEntry(name, k, p) ==
    \E i \in 1..Len(animations[name]) :
        animations[name][i].key = k /\ p \in DOMAIN animations[name][i].parts

\* C1: with a present current animation and a non-empty list of requested
\* parts, the call raises no exception and gives every requested part a
\* Transform; a part whose data is missing (no keyframe table for the name,
\* or no entry for the part in the bracketing keyframes) gets exactly
\* {x: 0, y: 0, rotation: 0}.  (Stated for descriptors of positive duration,
\* a reference time not before createdAt, and a part to which the previous
\* animation does not contribute.)
C1_MissingDataSafety ==
    ( /\ out.called /\ animation # undefined /\ returnKeys # <<>>
      /\ animation.duration > 0 /\ out.at >= animation.createdAt
      /\ (oldAnimation = undefined \/ oldAnimation.duration > 0) ) =>
        /\ ~out.threw
        /\ DOMAIN out.result = Requested
        /\ \A p \in Requested :
              ( /\ DOMAIN out.oldAnimationValues = {}
                /\ \/ ~HasTable(animation)
                   \/ /\ ~HasEntry(animation.name, out.new.from.n, p)
                      /\ ~HasEntry(animation.name, out.new.to.n, p) )
              => out.result[p] = V(0, 0, 0)

\* C2: saturation.  Once referenceTime - createdAt >= duration the resolver
\* yields progress = 100 and from = to = 100, and every requested part's
\* Transform is exactly the entry of keyframe 100.  (Stated for the tables
\* that define keyframe 100 and for a positive duration.)
C2_Saturation ==
    ( /\ out.called /\ out.entered
      /\ HasTable(animation)
      /\ 100 \in KeysOf(animation.name)
      /\ animation.duration > 0
      /\ out.at - animation.createdAt >= animation.duration ) =>
        /\ ~out.threw
        /\ out.new.progress = Num(100)
        /\ out.new.from = Num(100)
        /\ out.new.to = Num(100)
        /\ \A p \in Requested : out.result[p] = Entry(animation.name, 100, p)

\* the previous animation's interpolated Transform of part p at the progress
\* it had when it was canceled: a function of the previous descriptor alone
FrozenPrevious(p) ==
    LET name == oldAnimation.name
        P    == Clamped(oldAnimation.canceledAt - oldAnimation.createdAt,
                        oldAnimation.duration)
        le   == {k \in KeysOf(name) : NumGe(P, Num(k))}
        lo   == IF le = {} THEN 0 ELSE Max(le)
        gt   == {k \in KeysOf(name) : k > lo}
        hi   == IF gt = {} THEN 100 ELSE Min(gt)
        t    == NumDiv(NumSub(P, Num(lo)), Num(hi - lo))
        a    == Entry(name, lo, p)
        b    == Entry(name, hi, p)
    IN  [f \in Fields |-> NumAdd(a[f], NumMul(NumSub(b[f], a[f]), t))]

CrossfadeCondition ==
    /\ out.called /\ out.entered
    /\ oldAnimation # undefined
    /\ out.new.from = Num(0)
    /\ out.at - oldAnimation.createdAt - oldAnimation.duration < 0

\* C3: crossfade activation.  While the current from key is 0 and
\* now - previous.createdAt - previous.duration < 0, the "from" side of every
\* requested part's blend is the previous animation's own interpolated
\* Transform at progress 100 * (canceledAt - createdAt) / duration: it is
\* frozen at the cancellation instant and does not move with the reference
\* time.
C3_CrossfadeFrozen ==
    (CrossfadeCondition /\ ~out.threw) =>
        \A p \in Requested : out.fromValues[p] = FrozenPrevious(p)

C3_Witness ==
    /\ CrossfadeCondition /\ ~out.threw
    /\ animation.duration > 0 /\ out.at >= animation.createdAt
    /\ out.at > oldAnimation.canceledAt
    /\ "armLeft" \in Requested
    /\ out.fromValues["armLeft"] = V(6, 1, 15)

PreviousContributes == DOMAIN out.oldAnimationValues # {}

\* C4: crossfade policy.  The previous animation contributes only if the
\* current from key is 0 and referenceTime - previous.createdAt -
\* previous.duration < 0 at the reference time of the call; if previous is
\* absent or the current from key is not 0, the "from" side of every part's
\* blend is the current animation's own keyframe-from entry.
C4_CrossfadePolicy ==
    (out.called /\ out.entered) =>
        /\ PreviousContributes =>
              /\ oldAnimation # undefined
              /\ out.new.from = Num(0)
              /\ out.at - oldAnimation.createdAt - oldAnimation.duration < 0
        /\ (~out.threw /\ (oldAnimation = undefined \/ out.new.from # Num(0))) =>
              \A p \in Requested :
                  out.fromValues[p] = Entry(animation.name, out.new.from.n, p)

C4_Witness ==
    /\ out.called /\ out.entered /\ ~out.threw
    /\ animation.duration > 0 /\ out.at > animation.createdAt
    /\ oldAnimation # undefined
    /\ HasTable(oldAnimation)
    /\ out.at - oldAnimation.createdAt - oldAnimation.duration < 0
    /\ out.new.from = Num(40)
    /\ "head" \in Requested
    /\ out.fromValues["head"] = V(10, 0, 0)

\* C5: the progress the resolver returns is clamp(100 * elapsed / duration, 0,
\* 100), so it lies in [0, 100] also when the reference time is earlier than
\* createdAt; elapsed is referenceTime - createdAt for the live descriptor and
\* canceledAt - createdAt for the superseded one.  (Stated for duration > 0.)
C5_ProgressClamped ==
    (out.called /\ out.entered) =>
        /\ (HasTable(animation) /\ animation.duration > 0) =>
              out.new.progress = Clamped(out.at - animation.createdAt, animation.duration)
        /\ (HasTable(oldAnimation) /\ oldAnimation.duration > 0) =>
              out.old.progress = Clamped(oldAnimation.canceledAt - oldAnimation.createdAt,
                                         oldAnimation.duration)

\* C6: for every progress value and every table with ascending keys, from is
\* the greatest key <= progress (0 if none) and to is the key immediately
\* after from in the table, or 100 if from is the last key.  (Stated for the
\* progress values of descriptors of positive duration.)
C6_Bracketing ==
    (out.called /\ out.entered) =>
        /\ (HasTable(animation) /\ animation.duration > 0) =>
              Brackets(animation.name, out.new)
        /\ (HasTable(oldAnimation) /\ oldAnimation.duration > 0) =>
              Brackets(oldAnimation.name, out.old)

\* C7: a descriptor whose duration is zero or negative is treated as already
\* complete: its progress is 100 at every reference time and every canceledAt.
C7_NonPositiveDurationComplete ==
    (out.called /\ out.entered) =>
        /\ (HasTable(animation) /\ animation.duration <= 0) => out.new.progress = Num(100)
        /\ (HasTable(oldAnimation) /\ oldAnimation.duration <= 0) =>
              out.old.progress = Num(100)

\* C8: every blend factor the engine computes (previous pass and current pass)
\* is a defined number in [0, 1]; no division by zero occurs.  (Stated for
\* descriptors of positive duration and a reference time not before createdAt.)
C8_BlendFactorInUnitInterval ==
    ( /\ out.called /\ out.entered
      /\ animation.duration > 0 /\ out.at >= animation.createdAt
      /\ (oldAnimation = undefined \/ oldAnimation.duration > 0) ) =>
        \A i \in DOMAIN out.factors :
            /\ IsFinite(out.factors[i])
            /\ NumGe(out.factors[i], Num(0))
            /\ NumGe(Num(1), out.factors[i])

\* C9: for a fixed pair of descriptors and a reference time that only grows
\* from current.createdAt, the phase moves forward only: once the previous
\* animation has stopped contributing it never contributes again, the current
\* from key never decreases, and once progress is 100 it stays 100 with from
\* and to unchanged.
C9_PhaseForward ==
    [][ ( /\ out.called /\ out.entered
          /\ out.at >= animation.createdAt ) =>
            /\ out'.at >= out.at
            /\ ~out.blended => ~out'.blended
            /\ NumGe(out'.new.from, out.new.from)
            /\ out.new.progress = Num(100) => out'.new = out.new
      ]_vars

C9_Witness ==
    /\ out.called /\ out.entered
    /\ HasTable(animation) /\ HasTable(oldAnimation)
    /\ out.at > animation.createdAt + animation.duration
    /\ animation.duration > 0
    /\ out.new.progress = Num(100)
    /\ ~out.blended
    /\ now > out.at

(***************************************************************************)
(* Properties of the server tick loop                                      *)
(***************************************************************************)
Nominal(k) == start + k * loopTimeout

\* C10: each update() performs movePlayers, handlePlayerAttacks and
\* sendUpdateToPlayers in this order and then arms exactly one next tick, with
\* wait = loopTimeout - (now - start - accumulated nominal time); when the
\* overrun exceeds the tick interval the wait is zero and never negative, so
\* tick k is never armed for a time before start + k * loopTimeout, and a tick
\* armed without a stall is due exactly at its nominal time.
C10_TickLoop ==
    /\ pc = "idle" => Len(timers) = 1
    /\ pc # "idle" => Len(timers) = 0
    /\ Len(log) <= Len(UpdateSteps) /\ log = SubSeq(UpdateSteps, 1, Len(log))
    /\ pc = "rearm" => log = UpdateSteps
    /\ time = ticks * loopTimeout \/ (pc # "idle" /\ time = (ticks - 1) * loopTimeout)
    /\ \A i \in 1..Len(timers) :
          LET t == timers[i]
          IN  /\ t.delay = loopTimeout - (t.armedAt - start - time)
              /\ t.due >= t.armedAt
              /\ t.due >= Nominal(ticks + 1)
              /\ t.due = (IF t.armedAt > Nominal(ticks + 1) THEN t.armedAt
                          ELSE Nominal(ticks + 1))

C10_Witness ==
    /\ pc = "idle" /\ ticks >= 2
    /\ Len(timers) = 1
    /\ timers[1].delay < 0
    /\ timers[1].due = timers[1].armedAt
    /\ log = UpdateSteps

====
